---- MODULE Spec2Model ----
(***************************************************************************)
(* EloPicDB (src/elopic/data/elopicdb.py): the rating store of elopic and  *)
(* its reconciliation with the image directory.                            *)
(*                                                                         *)
(* The table of elopic.data is a sequence of documents in insertion        *)
(* order.  A document is a function from field names to values; a legacy   *)
(* document lacks 'seen_count' and/or 'ignore'.  File names and paths are  *)
(* sequences of one-character strings, so that lower() and endswith() are  *)
(* computed.                                                               *)
(*                                                                         *)
(* The source is Python 2 (it reads err.message of a caught exception,     *)
(* which every Python 2 exception has): the handlers of lines 50-53 and    *)
(* 72-75 rewrite the message and do not re-raise.  The store file is       *)
(* taken to be parseable, so that TinyDB(db_path) of line 44 succeeds.     *)
(* TinyDB is modelled by what search/get/insert/update/all do on the       *)
(* table.                                                                  *)
(***************************************************************************)
EXTENDS Integers, Sequences, FiniteSets, TLC

VARIABLES
    table,   \* the documents of elopic.data in the directory, in insertion order
    _db,     \* self._db: "None" after construction, "TinyDB" once loaded
    last,    \* the last call: operation, arguments, exception raised, value returned
    prev,    \* after load_from_disk: the table as that call found it
    calls,   \* per path created by reconciliation: update_rating calls since then
    callers  \* the callers that rate through the store at the same time, if any:
             \* per caller its place, its path, its outcome and the rating it read

vars == <<table, _db, last, prev, calls, callers>>

----------------------------------------------------------------------------
(* Bounds of the model *)

\* update_rating is not called on a document seen MaxSeen times
MaxSeen == 2
\* longest list handed to ignore_pictures
MaxIgnoreLen == 2
\* largest x handed to get_top_x_filepaths_by_rating
MaxK == 3
\* most documents for one path in the store file found at start-up
MaxCopies == 2
\* most entries, beside the store file, of a directory of mixed content
MaxEntries == 3

----------------------------------------------------------------------------
(* Constants of the program *)

\* imported from elopic.logic.elo; no property here depends on its value
INITIAL_ELO_SCORE == 1500

ELOPIC_DB_NAME == <<"e", "l", "o", "p", "i", "c", ".", "d", "a", "t", "a">>

ELOPIC_EXTENSIONS == << <<".", "j", "p", "g">>, <<".", "j", "p", "e", "g">> >>

----------------------------------------------------------------------------
(* Strings *)

UpperCase == <<"A", "B", "D", "E", "G", "J", "N", "P">>
LowerCase == <<"a", "b", "d", "e", "g", "j", "n", "p">>

\* str.lower(), on the alphabet of the model's file names
lower(s) ==
    [i \in DOMAIN s |->
        IF \E j \in DOMAIN UpperCase : UpperCase[j] = s[i]
        THEN LowerCase[CHOOSE j \in DOMAIN UpperCase : UpperCase[j] = s[i]]
        ELSE s[i]]

\* str.endswith()
endswith(s, suffix) ==
    /\ Len(s) >= Len(suffix)
    /\ SubSeq(s, Len(s) - Len(suffix) + 1, Len(s)) = suffix

\* self._dir: the absolute path of the directory
AbsDir == <<"/", "d">>

\* os.path.join(self._dir, img)
join(d, img) == d \o <<"/">> \o img

\* a filter that forgets lower(): only the lower-case spellings pass
is_image_case_sensitive(img) ==
    \E e \in DOMAIN ELOPIC_EXTENSIONS : endswith(img, ELOPIC_EXTENSIONS[e])

\* the filter of validate: any(img.lower().endswith(ext) for ext in ELOPIC_EXTENSIONS)
is_image(img) ==
    \E e \in DOMAIN ELOPIC_EXTENSIONS : endswith(lower(img), ELOPIC_EXTENSIONS[e])

----------------------------------------------------------------------------
(* The universe of the model *)

FileA == <<"a", ".", "j", "p", "g">>

FileB == <<"B", ".", "J", "P", "E", "G">>

\* the user's files that the directory may hold
UserNames == { FileA, FileB }

ImagePaths == { join(AbsDir, n) : n \in UserNames }

\* the path of a file that is never in the directory
UnknownPath == join(AbsDir, <<"n", ".", "p", "n", "g">>)

\* the paths handed to the operations
Paths == ImagePaths \cup {UnknownPath}

\* the ratings handed to update_rating
Ratings == { INITIAL_ELO_SCORE - 16, INITIAL_ELO_SCORE + 16 }

\* entries of a directory of mixed content: images spelled in upper and in
\* mixed case, a file of another extension, a file whose name only contains
\* an image extension, and a subdirectory
ScanUpper == <<"A", ".", "J", "P", "G">>

ScanMixed == <<"b", ".", "J", "p", "e", "g">>

ScanOther == <<"n", ".", "p", "n", "g">>

ScanBackup == <<"a", ".", "j", "p", "g", ".", "b", "a", "k">>

SubDir == <<"s", "u", "b">>

ScanNames == { ScanUpper, ScanMixed, ScanOther, ScanBackup, SubDir }

\* the image file the subdirectory holds, which os.listdir of the directory
\* does not list
NestedPath == join(join(AbsDir, SubDir), <<"s", ".", "j", "p", "g">>)

\* the directories of mixed content: up to MaxEntries of the entries
ScanDirs == { T \in SUBSET ScanNames : Cardinality(T) <= MaxEntries }

\* every entry a listing of the directory may hold
Entries == UserNames \cup ScanNames \cup {ELOPIC_DB_NAME}

\* is_image and join, tabulated over the entries
ImageEntries == { n \in Entries : is_image(n) }

PathOfEntry == [n \in Entries |-> join(AbsDir, n)]

----------------------------------------------------------------------------
(* TinyDB, on the table *)

HasField(doc, f) == f \in DOMAIN doc

\* Query().path == image_path
PathIs(p, doc) == HasField(doc, "path") /\ doc.path = p

\* Query().ignore == 0: a document without the field does not match
IgnoreIsZero(doc) == HasField(doc, "ignore") /\ doc.ignore = 0

\* a search by the file name instead of the joined path: it matches nothing
search_path_by_name(db, p) ==
    SelectSeq(db, LAMBDA doc : PathIs(SubSeq(p, Len(AbsDir) + 2, Len(p)), doc))

\* db.search(Image.path == p): the matching documents, in table order
search_path(db, p) == SelectSeq(db, LAMBDA doc : PathIs(p, doc))

\* db.insert(doc)
insert(db, doc) == Append(db, doc)

\* an update without its condition: every document gets the fields
update_fields_all(db, fields, p) ==
    [i \in DOMAIN db |-> fields @@ db[i]]

\* db.update(fields, Image.path == p): every matching document gets the fields
update_fields(db, fields, p) ==
    [i \in DOMAIN db |-> IF PathIs(p, db[i]) THEN fields @@ db[i] ELSE db[i]]

\* increment('seen_count') meets a matching document without the field: KeyError
increment_raises(db, p) ==
    \E i \in DOMAIN db : PathIs(p, db[i]) /\ ~HasField(db[i], "seen_count")

\* an increment without its condition: every document is incremented
update_increment_all(db, p) ==
    IF increment_raises(db, p) THEN db
    ELSE [i \in DOMAIN db |->
            IF HasField(db[i], "seen_count")
            THEN [seen_count |-> db[i].seen_count + 1] @@ db[i]
            ELSE db[i]]

\* db.update(increment('seen_count'), Image.path == p); nothing is written
\* when the operation raises
update_increment(db, p) ==
    IF increment_raises(db, p) THEN db
    ELSE [i \in DOMAIN db |->
            IF PathIs(p, db[i])
            THEN [seen_count |-> db[i].seen_count + 1] @@ db[i]
            ELSE db[i]]

----------------------------------------------------------------------------
(* Reconciliation *)

\* the document of the schema before 'ignore' was added
NewDocWithoutIgnore(image_path) ==
    [path |-> image_path, rating |-> INITIAL_ELO_SCORE, seen_count |-> 0]

\* the document _validate_image inserts for a new image
NewDoc(image_path) ==
    [path |-> image_path, rating |-> INITIAL_ELO_SCORE, seen_count |-> 0, ignore |-> 0]

\* one migration that writes both defaults when either field is missing
migrate_both(db, image_path, found) ==
    IF ~HasField(found, "seen_count") \/ ~HasField(found, "ignore")
    THEN update_fields(db, [seen_count |-> 0, ignore |-> 0], image_path)
    ELSE db

\* the two migrations of _validate_image, decided on result[0] as found
migrate(db, image_path, found) ==
    LET db1 == IF ~HasField(found, "seen_count")
               THEN update_fields(db, [seen_count |-> 0], image_path) ELSE db
    IN  IF ~HasField(found, "ignore")
        THEN update_fields(db1, [ignore |-> 0], image_path) ELSE db1

\* an insertion that is not guarded by the search: the image is added again
_validate_image_reinsert(db, image_path) ==
    [db |-> insert(db, NewDoc(image_path)), raised |-> "IndexError"]

\* EloPicDB._validate_image: the table it leaves and the exception it raises.
\* With no match it inserts, and then result[0] of the empty list raises
\* IndexError; with several it raises EloPicDBError; with one it migrates.
_validate_image(db, image_path) ==
    LET result == search_path(db, image_path) IN
    IF Len(result) = 0
    THEN [db |-> insert(db, NewDoc(image_path)), raised |-> "IndexError"]
    ELSE IF Len(result) > 1
    THEN [db |-> db, raised |-> "EloPicDBError"]
    ELSE [db |-> migrate(db, image_path, result[1]), raised |-> "none"]

\* a validate without the handler in its loop: the first exception ends it
RECURSIVE validate_abort(_, _)
validate_abort(db, listing) ==
    IF listing = <<>> THEN [db |-> db, caught |-> <<>>]
    ELSE LET img == Head(listing)
             one == IF img \in ImageEntries
                    THEN _validate_image(db, PathOfEntry[img])
                    ELSE [db |-> db, raised |-> "none"]
         IN  IF one.raised = "none" THEN validate_abort(one.db, Tail(listing))
             ELSE [db |-> one.db, caught |-> << [img |-> img, exc |-> one.raised] >>]

\* EloPicDB.validate over one listing of the directory: the table it leaves
\* and the per-file exceptions its handler caught (and dropped), in order
RECURSIVE validate(_, _)
validate(db, listing) ==
    IF listing = <<>> THEN [db |-> db, caught |-> <<>>]
    ELSE LET img == Head(listing)
             one == IF img \in ImageEntries
                    THEN _validate_image(db, PathOfEntry[img])
                    ELSE [db |-> db, raised |-> "none"]
             rest == validate(one.db, Tail(listing))
         IN  [db |-> rest.db,
              caught |-> (IF one.raised = "none" THEN <<>>
                          ELSE << [img |-> img, exc |-> one.raised] >>)
                         \o rest.caught]

\* the orders in which os.listdir may return a set of entries
RECURSIVE Orders(_)
Orders(S) ==
    IF S = {} THEN { <<>> }
    ELSE UNION { { <<x>> \o o : o \in Orders(S \ {x}) } : x \in S }

\* os.listdir(self._dir) during load_from_disk: the store file is there
Listings == [d \in (SUBSET UserNames) \cup ScanDirs |-> Orders(d \cup {ELOPIC_DB_NAME})]

listdir(d) == Listings[d]

----------------------------------------------------------------------------
(* The calls *)

\* the record of a call, with the fields a call does not use at their defaults
Call(op) ==
    [op |-> op, path |-> <<>>, rating |-> 0, paths |-> <<>>, k |-> 0,
     raised |-> "none", ret |-> <<>>, caught |-> <<>>, listed |-> {},
     repeat |-> FALSE]

\* the paths of the documents of a table
PathsOf(db) == { db[i].path : i \in DOMAIN db }

\* a load that drops the documents of the files the directory no longer holds
load_from_disk_prune(entries) ==
    \E listing \in listdir(entries) :
        LET v == validate(table, listing)
            kept == SelectSeq(v.db, LAMBDA doc :
                        \E n \in entries : is_image(n) /\ PathIs(join(AbsDir, n), doc))
        IN
        /\ table' = kept
        /\ _db' = "TinyDB"
        /\ prev' = table
        /\ last' = [Call("load_from_disk") EXCEPT
                        !.caught = v.caught, !.listed = entries,
                        !.repeat = (last.op = "load_from_disk" /\ last.listed = entries)]
        /\ calls' = [p \in DOMAIN calls \cup (PathsOf(v.db) \ PathsOf(table)) |->
                        IF p \in DOMAIN calls THEN calls[p] ELSE 0]

\* EloPicDB.load_from_disk(directory), the directory holding `entries` beside
\* the store file: opens the store and validates; what validate raises is
\* caught and dropped, and the call returns None
load_from_disk(entries) ==
    \E listing \in listdir(entries) :
        LET v == validate(table, listing) IN
        /\ table' = v.db
        /\ _db' = "TinyDB"
        /\ prev' = table
        /\ last' = [Call("load_from_disk") EXCEPT
                        !.caught = v.caught, !.listed = entries,
                        !.repeat = (last.op = "load_from_disk" /\ last.listed = entries)]
        /\ calls' = [p \in DOMAIN calls \cup (PathsOf(v.db) \ PathsOf(table)) |->
                        IF p \in DOMAIN calls THEN calls[p] ELSE 0]

\* EloPicDB.update_rating(image_path, rating): two updates; the second raises
\* KeyError on a document without 'seen_count', after the first was written
update_rating(image_path, rating) ==
    /\ \A i \in DOMAIN table :
          PathIs(image_path, table[i]) /\ HasField(table[i], "seen_count")
              => table[i].seen_count < MaxSeen
    /\ prev' = <<>>
    /\ calls' = [p \in DOMAIN calls |->
                    IF p = image_path THEN calls[p] + 1 ELSE calls[p]]
    /\ IF _db = "None"
       THEN /\ table' = table
            /\ last' = [Call("update_rating") EXCEPT !.path = image_path,
                           !.rating = rating, !.raised = "AttributeError"]
       ELSE LET rated == update_fields(table, [rating |-> rating], image_path) IN
            /\ table' = update_increment(rated, image_path)
            /\ last' = [Call("update_rating") EXCEPT !.path = image_path,
                           !.rating = rating,
                           !.raised = IF increment_raises(rated, image_path)
                                      THEN "KeyError" ELSE "none"]
    /\ UNCHANGED _db

\* a loop that gives up at the first path without a document
RECURSIVE ignore_all_stop(_, _)
ignore_all_stop(db, images_to_ignore) ==
    IF images_to_ignore = <<>> THEN db
    ELSE IF search_path(db, Head(images_to_ignore)) = <<>> THEN db
    ELSE ignore_all_stop(update_fields(db, [ignore |-> 1], Head(images_to_ignore)),
                         Tail(images_to_ignore))

\* the loop of ignore_pictures
RECURSIVE ignore_all(_, _)
ignore_all(db, images_to_ignore) ==
    IF images_to_ignore = <<>> THEN db
    ELSE ignore_all(update_fields(db, [ignore |-> 1], Head(images_to_ignore)),
                    Tail(images_to_ignore))

\* EloPicDB.ignore_pictures(images_to_ignore)
ignore_pictures(images_to_ignore) ==
    /\ prev' = <<>>
    /\ IF _db = "None" /\ images_to_ignore # <<>>
       THEN /\ table' = table
            /\ last' = [Call("ignore_pictures") EXCEPT !.paths = images_to_ignore,
                           !.raised = "AttributeError"]
       ELSE /\ table' = ignore_all(table, images_to_ignore)
            /\ last' = [Call("ignore_pictures") EXCEPT !.paths = images_to_ignore]
    /\ UNCHANGED <<_db, calls>>

\* EloPicDB.get_all(): db.search(Image.ignore == 0)
get_all(db) == SelectSeq(db, IgnoreIsZero)

\* a lookup that answers the initial score for a path it does not find
get_rating_default(db, image_path) ==
    LET found == search_path(db, image_path) IN
    IF Len(found) = 0 THEN [raised |-> "none", ret |-> << INITIAL_ELO_SCORE >>]
    ELSE [raised |-> "none", ret |-> << found[1].rating >>]

\* EloPicDB.get_rating(image_path): db.get() gives the first match or None,
\* and None['rating'] raises TypeError
get_rating(db, image_path) ==
    LET found == search_path(db, image_path) IN
    IF Len(found) = 0 THEN [raised |-> "TypeError", ret |-> <<>>]
    ELSE [raised |-> "none", ret |-> << found[1].rating >>]

\* EloPicDB.to_list(): one row per document of db.all(); a document without
\* 'seen_count' or 'ignore' raises KeyError
to_list(db) ==
    IF \E i \in DOMAIN db : ~HasField(db[i], "seen_count") \/ ~HasField(db[i], "ignore")
    THEN [raised |-> "KeyError", ret |-> <<>>]
    ELSE [raised |-> "none",
          ret |-> [i \in DOMAIN db |->
                     <<db[i].path, db[i].seen_count, db[i].rating, db[i].ignore>>]]

\* the sort without reverse=True: ascending
RECURSIVE insert_sorted_ascending(_, _)
insert_sorted_ascending(sorted, doc) ==
    IF sorted = <<>> THEN <<doc>>
    ELSE IF Head(sorted).rating <= doc.rating
         THEN <<Head(sorted)>> \o insert_sorted_ascending(Tail(sorted), doc)
         ELSE <<doc>> \o sorted

\* an ascending sort that is reversed afterwards: documents of equal rating
\* come out in reverse table order
RECURSIVE insert_sorted_reversed(_, _)
insert_sorted_reversed(sorted, doc) ==
    IF sorted = <<>> THEN <<doc>>
    ELSE IF Head(sorted).rating > doc.rating
         THEN <<Head(sorted)>> \o insert_sorted_reversed(Tail(sorted), doc)
         ELSE <<doc>> \o sorted

\* sorted(..., key=itemgetter('rating'), reverse=True): a stable sort, so a
\* document goes behind every document whose rating is at least its own
RECURSIVE insert_sorted(_, _)
insert_sorted(sorted, doc) ==
    IF sorted = <<>> THEN <<doc>>
    ELSE IF Head(sorted).rating >= doc.rating
         THEN <<Head(sorted)>> \o insert_sorted(Tail(sorted), doc)
         ELSE <<doc>> \o sorted

RECURSIVE sorted_by_rating(_)
sorted_by_rating(docs) ==
    IF docs = <<>> THEN <<>>
    ELSE insert_sorted(sorted_by_rating(SubSeq(docs, 1, Len(docs) - 1)),
                       docs[Len(docs)])

\* EloPicDB.get_top_x_filepaths_by_rating(x), x >= 0
get_top_x_filepaths_by_rating(db, x) ==
    LET all == get_all(db)
        top_x == SubSeq(sorted_by_rating(all), 1, IF x < Len(all) THEN x ELSE Len(all))
    IN  [i \in DOMAIN top_x |-> top_x[i].path]

\* a query: it leaves the table alone and returns (or raises)
Query(op, path, k, out) ==
    /\ prev' = <<>>
    /\ last' = IF _db = "None"
               THEN [Call(op) EXCEPT !.path = path, !.k = k, !.raised = "AttributeError"]
               ELSE [Call(op) EXCEPT !.path = path, !.k = k,
                                     !.raised = out.raised, !.ret = out.ret]
    /\ UNCHANGED <<table, _db, calls>>

GetRating(image_path) == Query("get_rating", image_path, 0, get_rating(table, image_path))

ToList == Query("to_list", <<>>, 0, to_list(table))

GetAll == Query("get_all", <<>>, 0, [raised |-> "none", ret |-> get_all(table)])

GetTopX(x) ==
    Query("get_top_x_filepaths_by_rating", <<>>, x,
          [raised |-> "none", ret |-> get_top_x_filepaths_by_rating(table, x)])

----------------------------------------------------------------------------
(* Specifications *)

\* the lists handed to ignore_pictures: up to MaxIgnoreLen distinct paths
IgnoreLists ==
    UNION { Orders(S) : S \in { T \in SUBSET Paths : Cardinality(T) <= MaxIgnoreLen } }

\* the documents a store file of an earlier run may hold for a path: of the
\* first schema (path, rating), of the second (with seen_count) or of today's
StoredShapes == { {"path", "rating"}, {"path", "rating", "seen_count"},
                  {"path", "rating", "seen_count", "ignore"} }

StoredDoc(p, shape, copy) ==
    LET full == [path |-> p,
                 rating |-> IF copy % 2 = 1 THEN INITIAL_ELO_SCORE + 16
                                            ELSE INITIAL_ELO_SCORE - 16,
                 seen_count |-> 1, ignore |-> 0]
    IN  [f \in shape |-> full[f]]

\* the documents of one shape a store file may hold for a path (more than
\* one: a corrupt store)
StoredFor(p, copies) ==
    { [j \in 1..n |-> StoredDoc(p, shape, j)] : n \in 0..copies, shape \in StoredShapes }

\* the store files found at start-up: up to MaxCopies documents for the
\* first file, then at most one for the second
StoredTables ==
    { s \o t : s \in StoredFor(join(AbsDir, FileA), MaxCopies),
               t \in StoredFor(join(AbsDir, FileB), 1) }

Start(stored) ==
    /\ table = stored
    /\ _db = "None"
    /\ last = Call("init")
    /\ prev = <<>>
    /\ calls = <<>>
    /\ callers = <<>>

\* after construction, the directory holding a store file of an earlier run
Init == \E stored \in StoredTables : Start(stored)

\* after construction, the directory holding no store file
InitFresh == Start(<<>>)

\* one caller at a time
Next ==
    \/ \E entries \in SUBSET UserNames : load_from_disk(entries) /\ UNCHANGED callers
    \/ \E p \in Paths, r \in Ratings : update_rating(p, r) /\ UNCHANGED callers
    \/ \E ps \in IgnoreLists : ignore_pictures(ps) /\ UNCHANGED callers
    \/ \E p \in Paths : GetRating(p) /\ UNCHANGED callers
    \/ ToList /\ UNCHANGED callers
    \/ GetAll /\ UNCHANGED callers
    \/ \E x \in 0..MaxK : GetTopX(x) /\ UNCHANGED callers

Spec == Init /\ [][Next]_vars

SpecFresh == InitFresh /\ [][Next]_vars

\* loads of directories of mixed content, from no store file
NextScan == \E entries \in ScanDirs : load_from_disk(entries) /\ UNCHANGED callers

SpecScan == InitFresh /\ [][NextScan]_vars

----------------------------------------------------------------------------
(* Two callers rating at the same time *)

\* the callers of the store; EloPicDB takes no lock and TinyDB is given none
Callers == {1, 2}

\* what the rating function makes of the rating a caller read: a win or a loss
\* against an equally rated picture
Outcomes == { -16, 16 }

new_rating(rating, outcome) == rating + outcome

\* the callers before their first call
Waiting ==
    { [c \in Callers |-> [pc |-> "get_rating", path |-> ps[c],
                          outcome |-> os[c], read |-> 0]] :
        ps \in [Callers -> ImagePaths], os \in [Callers -> Outcomes] }

InitCallers ==
    /\ table = <<>>
    /\ _db = "None"
    /\ last = Call("init")
    /\ prev = <<>>
    /\ calls = <<>>
    /\ callers \in Waiting

\* the application opens the directory of the two pictures before anyone rates
Open ==
    /\ _db = "None"
    /\ load_from_disk(UserNames)
    /\ UNCHANGED callers

\* a caller reads the rating of its picture: get_rating(path)
CallerReads(c) ==
    /\ _db = "TinyDB"
    /\ callers[c].pc = "get_rating"
    /\ GetRating(callers[c].path)
    /\ callers' = [callers EXCEPT ![c].pc = "update_rating",
                                  ![c].read = get_rating(table, callers[c].path).ret[1]]

\* a caller writes the rating it computed from the one it read:
\* update_rating(path, new)
CallerWrites(c) ==
    /\ callers[c].pc = "update_rating"
    /\ update_rating(callers[c].path, new_rating(callers[c].read, callers[c].outcome))
    /\ callers' = [callers EXCEPT ![c].pc = "done"]

NextCallers ==
    \/ Open
    \/ \E c \in Callers : CallerReads(c)
    \/ \E c \in Callers : CallerWrites(c)

SpecCallers == InitCallers /\ [][NextCallers]_vars

----------------------------------------------------------------------------
(* Properties *)

\* the documents of a table for a path, by position
Positions(db, p) == { i \in DOMAIN db : PathIs(p, db[i]) }

FullDoc(doc) == DOMAIN doc = {"path", "rating", "seen_count", "ignore"}

Legacy(doc) == ~HasField(doc, "seen_count") \/ ~HasField(doc, "ignore")

Loaded == last.op = "load_from_disk"

\* the paths of the image files the last load_from_disk listed
ListedPaths == { PathOfEntry[n] : n \in { m \in last.listed : is_image(m) } }

\* C1. Uniqueness: from an empty store, whatever loads (of any directory
\* content), rating updates and ignore calls are made, no two documents of
\* the store have the same path.
C1_Uniqueness ==
    \A i, j \in DOMAIN table : table[i].path = table[j].path => i = j

C1_Witness ==
    /\ Loaded
    /\ Len(table) = 2
    /\ last.listed # UserNames
    /\ \E i \in DOMAIN table : table[i].seen_count > 0
    /\ \E i \in DOMAIN table : table[i].ignore = 1

\* C2. Idempotent reconciliation: a load_from_disk that directly follows a
\* load_from_disk of the same directory content leaves the table exactly as
\* it found it.
C2_IdempotentLoad ==
    (Loaded /\ last.repeat) => table = prev

C2_Witness ==
    /\ Loaded
    /\ last.repeat
    /\ last.listed = UserNames
    /\ Len(table) >= 2
    /\ \E i \in DOMAIN table : FullDoc(table[i])

\* C3. Migration safety: when load_from_disk finds exactly one document for a
\* listed image and that document lacks seen_count and/or ignore, then after
\* the call the document, at its place, has seen_count = 0 if it lacked
\* seen_count and ignore = 0 if it lacked ignore, every field it had keeps
\* its value (rating and path among them), and it has no other field.
C3_MigrationSafety ==
    Loaded =>
        \A p \in ListedPaths :
            \A i \in Positions(prev, p) :
                (Positions(prev, p) = {i} /\ Legacy(prev[i])) =>
                    /\ FullDoc(table[i])
                    /\ \A f \in DOMAIN prev[i] : table[i][f] = prev[i][f]
                    /\ ~HasField(prev[i], "seen_count") => table[i].seen_count = 0
                    /\ ~HasField(prev[i], "ignore") => table[i].ignore = 0
                    /\ Positions(table, p) = {i}

C3_Witness ==
    /\ Loaded
    /\ \E i, j \in DOMAIN prev :
          /\ DOMAIN prev[i] = {"path", "rating"}
          /\ DOMAIN prev[j] = {"path", "rating", "seen_count"}
          /\ prev[j].seen_count = 1
          /\ {prev[i].path, prev[j].path} \subseteq ListedPaths
          /\ Positions(prev, prev[i].path) = {i}
          /\ Positions(prev, prev[j].path) = {j}

\* C4. seen_count counts the rating updates: a path whose document was
\* created by reconciliation has exactly one document, and its seen_count is
\* the number of update_rating calls made on the path since, whatever
\* load_from_disk and ignore_pictures calls came in between.
C4_SeenCountCounts ==
    \A p \in DOMAIN calls :
        \E i \in DOMAIN table :
            /\ Positions(table, p) = {i}
            /\ HasField(table[i], "seen_count")
            /\ table[i].seen_count = calls[p]

C4_Witness ==
    /\ Loaded
    /\ Cardinality(DOMAIN calls) = 2
    /\ \E p \in DOMAIN calls : calls[p] = 2
    /\ \E p \in DOMAIN calls : calls[p] = 0
    /\ \E i \in DOMAIN table : table[i].path \in DOMAIN calls /\ table[i].ignore = 1

\* the active documents, by position: those whose ignore flag is 0
ActivePositions(db) == { i \in DOMAIN db : HasField(db[i], "ignore") /\ db[i].ignore = 0 }

\* ret names x of the active documents (all of them when there are fewer), in
\* non-increasing rating order, and no active document left out is rated
\* higher than one that is named
TopXCorrect(db, x, ret) ==
    LET A == ActivePositions(db)
        n == IF x < Cardinality(A) THEN x ELSE Cardinality(A)
    IN  /\ Len(ret) = n
        /\ \E f \in [1..n -> A] :
              /\ \A a, b \in 1..n : f[a] = f[b] => a = b
              /\ \A a \in 1..n : ret[a] = db[f[a]].path
              /\ \A a, b \in 1..n : a < b => db[f[a]].rating >= db[f[b]].rating
              /\ \A i \in A \ { f[a] : a \in 1..n } :
                    \A a \in 1..n : db[i].rating <= db[f[a]].rating

\* C5. Top-K correctness: get_top_x_filepaths_by_rating(x), x >= 0, returns
\* the paths of min(x, number of active documents) distinct active documents
\* in non-increasing rating order, none left out being rated higher than one
\* returned; so with x at least the number of active documents, all of them.
C5_TopK ==
    (last.op = "get_top_x_filepaths_by_rating" /\ last.raised = "none")
        => TopXCorrect(table, last.k, last.ret)

C5_Witness ==
    /\ last.op = "get_top_x_filepaths_by_rating"
    /\ last.k = 2
    /\ Len(table) = 3
    /\ Cardinality(ActivePositions(table)) = 3
    /\ table[2].rating < table[3].rating
    /\ last.ret = <<table[1].path, table[3].path>>

\* C6. Ignore exclusion: after ignore_pictures([p]) for a path p that has a
\* document, get_all() holds no document of p, and to_list() returns a row
\* for p with the rating and seen_count p had before.
C6_IgnoreExclusion ==
    [][\A p \in Paths :
          ( /\ last'.op = "ignore_pictures"
            /\ last'.paths = <<p>>
            /\ last'.raised = "none"
            /\ Positions(table, p) # {} )
          => /\ p \notin PathsOf(get_all(table'))
             /\ to_list(table').raised = "none"
             /\ \A i \in Positions(table, p) :
                   \E r \in DOMAIN to_list(table').ret :
                       /\ to_list(table').ret[r][1] = p
                       /\ to_list(table').ret[r][2] = table[i].seen_count
                       /\ to_list(table').ret[r][3] = table[i].rating
      ]_vars

\* every listed image that had no document has exactly one after the load,
\* with the initial rating, seen_count 0 and ignore 0
NewFilesInserted ==
    \A p \in ListedPaths :
        Positions(prev, p) = {} =>
            \E i \in DOMAIN table :
                /\ Positions(table, p) = {i}
                /\ table[i] = [path |-> p, rating |-> INITIAL_ELO_SCORE,
                               seen_count |-> 0, ignore |-> 0]

\* the last load_from_disk listed an image that had no document
SomeNewFile == \E p \in ListedPaths : Positions(prev, p) = {}

\* C7 as stated. New-file insertion: a load_from_disk that lists images
\* without a document inserts exactly one document, with the initial values,
\* for each of them, and leaves all documents that were there unchanged.
C7_NewFileInsertion_AsStated ==
    (Loaded /\ SomeNewFile) =>
        /\ NewFilesInserted
        /\ \A i \in DOMAIN prev : table[i] = prev[i]

\* C7, amended. New-file insertion: a load_from_disk that lists images
\* without a document inserts exactly one document, with the initial values,
\* for each of them; every document that was there keeps its place and the
\* value of every field it had, and only a legacy document of a listed image
\* changes at all (it gains its missing fields).
C7_NewFileInsertion ==
    (Loaded /\ SomeNewFile) =>
        /\ NewFilesInserted
        /\ \A i \in DOMAIN prev :
              /\ i \in DOMAIN table
              /\ \A f \in DOMAIN prev[i] : HasField(table[i], f) /\ table[i][f] = prev[i][f]
              /\ table[i] # prev[i] => Legacy(prev[i]) /\ prev[i].path \in ListedPaths

C7_Witness ==
    /\ Loaded
    /\ SomeNewFile
    /\ Len(table) = Len(prev) + 1
    /\ \E i \in DOMAIN prev :
          /\ table[i] # prev[i]
          /\ prev[i].rating # INITIAL_ELO_SCORE
          /\ table[i].rating = prev[i].rating

\* C8. Duplicate detection is reported: a load_from_disk that finds more than
\* one document for the path of a listed image ends in an error its caller
\* sees.
C8_DuplicateReported ==
    (Loaded /\ \E p \in ListedPaths : Cardinality(Positions(prev, p)) > 1)
        => last.raised # "none"

\* a listed image is reconciled: it has one complete document if it had none,
\* and its single legacy document is complete
Reconciled(p) ==
    /\ Positions(prev, p) = {} =>
          \E i \in DOMAIN table : Positions(table, p) = {i} /\ FullDoc(table[i])
    /\ \A i \in Positions(prev, p) :
          (Positions(prev, p) = {i} /\ Legacy(prev[i])) => FullDoc(table[i])

\* C9. One bad file does not block the rest: when _validate_image raises for
\* one listed image, whatever its place in the listing, every other listed
\* image is reconciled by the same load_from_disk.
C9_RestReconciled ==
    Loaded =>
        \A j \in DOMAIN last.caught :
            \A p \in ListedPaths \ { PathOfEntry[last.caught[j].img] } : Reconciled(p)

C9_Witness ==
    /\ Loaded
    /\ Len(last.caught) = 2
    /\ last.caught[1].exc = "EloPicDBError"
    /\ last.caught[2].exc = "IndexError"
    /\ Cardinality(Positions(prev, PathOfEntry[last.caught[1].img])) = 2
    /\ Cardinality(Positions(table, PathOfEntry[last.caught[2].img])) = 1

\* C10. Rating lookup of an unknown path: get_rating(p) for a path p that has
\* no document raises, returns no rating, and leaves the table unchanged.
C10_GetRatingUnknown ==
    [][(last'.op = "get_rating" /\ Positions(table, last'.path) = {})
          => /\ last'.raised \in {"TypeError", "AttributeError"}
             /\ last'.ret = <<>>
             /\ table' = table
      ]_vars

C10_Witness ==
    /\ last.op = "get_rating"
    /\ _db = "TinyDB"
    /\ table # <<>>
    /\ Positions(table, last.path) = {}
    /\ last.raised = "TypeError"

\* C11. Rating update of an unknown path: update_rating(p, r) for a path p
\* that has no document raises to its caller and leaves the table unchanged;
\* it never returns normally, and it adds no document for p.
C11_UpdateUnknownFails ==
    [][(last'.op = "update_rating" /\ Positions(table, last'.path) = {})
          => /\ last'.raised # "none"
             /\ table' = table
      ]_vars

\* the paths of a list
PathsIn(images) == { images[j] : j \in DOMAIN images }

\* C12. Best-effort bulk ignore: on an opened store, ignore_pictures(paths)
\* with any mix of paths with and without a document raises nothing, sets
\* ignore = 1 on every document whose path is in the list (those listed behind
\* a path without a document too) and changes nothing else of it, adds no
\* document, and leaves every document whose path is not in the list as it was.
C12_BulkIgnore ==
    [][(last'.op = "ignore_pictures" /\ _db = "TinyDB")
          => /\ last'.raised = "none"
             /\ DOMAIN table' = DOMAIN table
             /\ \A i \in DOMAIN table :
                    IF table[i].path \in PathsIn(last'.paths)
                    THEN /\ table'[i].ignore = 1
                         /\ \A f \in DOMAIN table[i] \ {"ignore"} :
                                table'[i][f] = table[i][f]
                         /\ DOMAIN table'[i] = DOMAIN table[i] \cup {"ignore"}
                    ELSE table'[i] = table[i]
      ]_vars

C12_Witness ==
    /\ last.op = "ignore_pictures"
    /\ last.raised = "none"
    /\ Len(last.paths) = 2
    /\ Positions(table, last.paths[1]) = {}
    /\ \E i \in Positions(table, last.paths[2]) : table[i].ignore = 1
    /\ \E i \in DOMAIN table :
           table[i].path \notin PathsIn(last.paths) /\ IgnoreIsZero(table[i])

\* C13. Records are never deleted: no step removes a document or makes the
\* set of paths with a document smaller, and a load_from_disk leaves every
\* document whose file the directory no longer holds in the table, at its
\* place, with every field (rating and seen_count among them) as it was.
C13_NeverDeleted ==
    [][/\ PathsOf(table) \subseteq PathsOf(table')
       /\ Len(table') >= Len(table)
       /\ \A i \in DOMAIN table : table'[i].path = table[i].path
       /\ last'.op = "load_from_disk" =>
             \A i \in DOMAIN table :
                 (\A n \in last'.listed : PathOfEntry[n] # table[i].path)
                     => table'[i] = table[i]
      ]_vars

C13_Witness ==
    /\ Loaded
    /\ \E i \in DOMAIN prev :
          /\ prev[i].path \notin ListedPaths
          /\ prev[i].path \in DOMAIN calls
          /\ calls[prev[i].path] > 0
          /\ table[i] = prev[i]
          /\ FullDoc(table[i])
          /\ table[i].seen_count > 0
          /\ table[i].rating # INITIAL_ELO_SCORE

\* C14. Stable ties in the top list: get_top_x_filepaths_by_rating(k) lists
\* the documents with ignore = 0 by descending rating, documents of equal
\* rating in the order get_all() gives them (table order); so when documents
\* of equal rating straddle the cut at k, the earlier ones are the ones kept.
C14_StableTies ==
    (last.op = "get_top_x_filepaths_by_rating" /\ last.raised = "none") =>
        \E f \in [DOMAIN last.ret -> ActivePositions(table)] :
            /\ \A a \in DOMAIN f : last.ret[a] = table[f[a]].path
            /\ \A a, b \in DOMAIN f :
                   a < b => \/ table[f[a]].rating > table[f[b]].rating
                            \/ /\ table[f[a]].rating = table[f[b]].rating
                               /\ f[a] < f[b]
            /\ \A i \in ActivePositions(table) \ { f[a] : a \in DOMAIN f } :
                   \A a \in DOMAIN f :
                       \/ table[f[a]].rating > table[i].rating
                       \/ /\ table[f[a]].rating = table[i].rating
                          /\ f[a] < i

C14_Witness ==
    /\ last.op = "get_top_x_filepaths_by_rating"
    /\ last.k = 1
    /\ Len(last.ret) = 1
    /\ \E i, j \in ActivePositions(table) :
          /\ i < j
          /\ table[i].rating = table[j].rating
          /\ table[i].path # table[j].path
          /\ last.ret[1] = table[i].path
          /\ \A h \in ActivePositions(table) : table[h].rating <= table[i].rating

\* C15. Rating is changed by update_rating alone: load_from_disk and
\* ignore_pictures leave the rating of every document they find as it was
\* (and so do the queries); update_rating(p, r) on an opened store sets the
\* rating of the documents of p to r, leaves their ignore field as it was, and
\* leaves every document of another path unchanged.
C15_RatingFrame ==
    [][/\ last'.op # "update_rating" =>
             \A i \in DOMAIN table : table'[i].rating = table[i].rating
       /\ (last'.op = "update_rating" /\ _db = "TinyDB") =>
             /\ DOMAIN table' = DOMAIN table
             /\ \A i \in DOMAIN table :
                    IF table[i].path = last'.path
                    THEN /\ table'[i].rating = last'.rating
                         /\ HasField(table'[i], "ignore") = HasField(table[i], "ignore")
                         /\ HasField(table[i], "ignore") =>
                                table'[i].ignore = table[i].ignore
                    ELSE table'[i] = table[i]
      ]_vars

C15_Witness ==
    /\ last.op = "update_rating"
    /\ last.raised = "none"
    /\ \E i \in Positions(table, last.path) :
          /\ table[i].rating = last.rating
          /\ HasField(table[i], "ignore")
          /\ table[i].ignore = 1
    /\ \E i \in DOMAIN table :
          /\ table[i].path # last.path
          /\ table[i].rating # last.rating
          /\ IgnoreIsZero(table[i])

\* C16. Scan scope: every document a load_from_disk creates has as path the
\* absolute path of an immediate entry of the directory whose name ends, in
\* any case, with .jpg or .jpeg; an entry of another extension (elopic.data
\* and a name that merely contains .jpg among them), the subdirectory and the
\* file inside the subdirectory never get a document; A.JPG and b.Jpeg, when
\* listed, have one after the load.
C16_ScanScope ==
    /\ Loaded =>
          /\ \A i \in DOMAIN table \ DOMAIN prev :
                \E n \in last.listed \cap {ScanUpper, ScanMixed} :
                    table[i].path = AbsDir \o <<"/">> \o n
          /\ \A n \in last.listed \cap {ScanUpper, ScanMixed} :
                Positions(table, AbsDir \o <<"/">> \o n) # {}
    /\ \A i \in DOMAIN table :
          /\ table[i].path # NestedPath
          /\ \A n \in {ScanOther, ScanBackup, SubDir, ELOPIC_DB_NAME} :
                table[i].path # AbsDir \o <<"/">> \o n

C16_Witness ==
    /\ Loaded
    /\ last.listed = {ScanUpper, ScanBackup, SubDir}
    /\ Len(prev) = 1
    /\ prev[1].path = AbsDir \o <<"/">> \o ScanMixed
    /\ Len(table) = 2
    /\ table[2].path = AbsDir \o <<"/">> \o ScanUpper

\* C17. No lost update: when two callers have each run get_rating(p), computed
\* a new rating from what they read and run update_rating(p, new), in any
\* interleaving of their calls, the rating and the seen_count of p are those
\* that one of the two serial orders of the callers leaves.
C17_NoLostUpdate ==
    (/\ callers # <<>>
     /\ \A c \in Callers : callers[c].pc = "done"
     /\ callers[1].path = callers[2].path)
        => \A i \in Positions(table, callers[1].path) :
              /\ table[i].seen_count = 2
              /\ table[i].rating \in
                    { new_rating(new_rating(INITIAL_ELO_SCORE, callers[1].outcome),
                                 callers[2].outcome),
                      new_rating(new_rating(INITIAL_ELO_SCORE, callers[2].outcome),
                                 callers[1].outcome) }

\* C18. Schema completeness after load: once load_from_disk has returned,
\* every document of the table (that of a file no longer in the directory and
\* those of a path whose validation failed included) has the four fields
\* path, rating, seen_count and ignore, so to_list() gives one row per
\* document and get_all() gives every document whose ignore is not 1.
C18_SchemaComplete ==
    Loaded =>
        /\ \A i \in DOMAIN table : FullDoc(table[i])
        /\ to_list(table).raised = "none"
        /\ Len(to_list(table).ret) = Len(table)
        /\ \A i \in DOMAIN table :
              (HasField(table[i], "ignore") => table[i].ignore # 1)
                  => \E j \in DOMAIN get_all(table) : get_all(table)[j] = table[i]

\* a document with ignore = 1 keeps it across the step
IgnoreStays ==
    \A i \in DOMAIN table :
        (HasField(table[i], "ignore") /\ table[i].ignore = 1)
            => /\ i \in DOMAIN table'
               /\ table'[i].path = table[i].path
               /\ HasField(table'[i], "ignore")
               /\ table'[i].ignore = 1

\* what get_all() and get_top_x_filepaths_by_rating() return names no path of
\* a document with ignore = 1
IgnoredNotListed ==
    /\ (last'.op = "get_all" /\ last'.raised = "none") =>
          \A i \in DOMAIN table, j \in DOMAIN last'.ret :
              (HasField(table[i], "ignore") /\ table[i].ignore = 1)
                  => last'.ret[j].path # table[i].path
    /\ (last'.op = "get_top_x_filepaths_by_rating" /\ last'.raised = "none") =>
          \A i \in DOMAIN table, j \in DOMAIN last'.ret :
              (HasField(table[i], "ignore") /\ table[i].ignore = 1)
                  => last'.ret[j] # table[i].path

\* update_rating on an opened store, for a path with ignore = 1, sets the
\* rating and adds one to seen_count
IgnoredStillRated ==
    (last'.op = "update_rating" /\ _db = "TinyDB") =>
        \A i \in Positions(table, last'.path) :
            (HasField(table[i], "ignore") /\ table[i].ignore = 1)
                => /\ table'[i].rating = last'.rating
                   /\ HasField(table[i], "seen_count")
                   /\ HasField(table'[i], "seen_count")
                   /\ table'[i].seen_count = table[i].seen_count + 1

\* C19. Ignoring is permanent: once a document has ignore = 1 no call sets it
\* back (load_from_disk, its migration included, among them), its path is in
\* no later result of get_all() or get_top_x_filepaths_by_rating(), and
\* update_rating on its path still sets its rating and adds one to its
\* seen_count.
C19_IgnorePermanent ==
    [][IgnoreStays /\ IgnoredNotListed /\ IgnoredStillRated]_vars

\* C20. _validate_image raises only on duplicates: among the files of a
\* load_from_disk, _validate_image raises (and validate catches a per-file
\* exception) only for a file whose path had more than one document; for a
\* file with no document it inserts one and returns normally, for a file with
\* one document it returns normally.
C20_RaisesOnlyOnDuplicates ==
    Loaded =>
        \A j \in DOMAIN last.caught :
            Cardinality(Positions(prev, PathOfEntry[last.caught[j].img])) > 1

====
